---- MODULE Spec2Model ----
(***************************************************************************)
(* Model of the MCP cryptocurrency market-data server:                     *)
(*   mcp_server/main.py                     the HTTP gateway               *)
(*   mcp_server/services/crypto_service.py  the cache-guarded ticker fetch *)
(*                                          and the historical passthrough *)
(*   mcp_server/core/exceptions.py          the domain error classes       *)
(*   mcp_server/core/config.py              the settings                   *)
(*                                                                         *)
(* Requests run as asyncio tasks: the code between two awaits that really  *)
(* suspend (waiting for cache_lock, load_markets, fetch_ticker,            *)
(* fetch_ohlcv, close) is one atomic step.  Strings are TLC strings, so    *)
(* the cache key is the real concatenation; the raw request symbol is a    *)
(* sequence of characters so that normalize_symbol works on characters.    *)
(***************************************************************************)
EXTENDS Integers, Sequences, FiniteSets, TLC

\* ------------------------------------------------------------------ bounds
NumTasks == 2      \* request slots that run concurrently
MaxCalls == 3      \* requests started in one behaviour
MaxTicks == 3      \* clock advances in one behaviour
TickSeconds == 30  \* seconds the clock advances at a time
MaxSize == 2       \* capacity of ticker_cache, scaled down from maxsize=1024
                   \* (crypto_service.py:10) so that eviction is reachable
MaxSymbolLen == 3  \* characters of a raw symbol handed to normalize_symbol
MaxNormalize == 2  \* times normalize_symbol is applied to its own result

\* --------------------------------------------------------------- constants
CACHE_TTL_SECONDS == 60
DEFAULT_EXCHANGE == "binance"

Tasks == 1..NumTasks

\* ------------------------------------------------------------------ strings
RECURSIVE Join(_)
\* the Python str made of the characters of s
Join(s) == IF s = <<>> THEN "" ELSE Head(s) \o Join(Tail(s))

\* str.upper() on one character (the characters the requests use)
Upper(c) ==
  CASE c = "b" -> "B" [] c = "t" -> "T" [] c = "c" -> "C" [] c = "u" -> "U"
    [] c = "s" -> "S" [] c = "d" -> "D" [] c = "e" -> "E" [] c = "h" -> "H"
    [] OTHER -> c

\* mutant: symbol.upper() alone
normalize_symbol_UpperOnly(symbol) ==
  [i \in 1..Len(symbol) |-> Upper(symbol[i])]

\* symbol.upper().replace('-', '/') on a sequence of characters
normalize_symbol(symbol) ==
  LET upper == [i \in 1..Len(symbol) |-> Upper(symbol[i])]
  IN  [i \in 1..Len(symbol) |-> IF upper[i] = "-" THEN "/" ELSE upper[i]]

\* ------------------------------------------------------------------- inputs
\* the characters of the raw symbols normalize_symbol is tried on, and the
\* raw symbols themselves: every string of up to MaxSymbolLen of them
SymbolChars == { "b", "T", "-", "/" }
SymbolInputs == UNION { [1..n -> SymbolChars] : n \in 0..MaxSymbolLen }

\* a string that the route's {symbol} path parameter matches: not empty and
\* without a slash
PathSegment(symbol) ==
  symbol # <<>> /\ \A i \in 1..Len(symbol) : symbol[i] # "/"

\* raw path symbols of the requests: btc-usdt, btc-usdt:usdt, usdt
RawSymbols ==
  { <<"b","t","c","-","u","s","d","t">>,
    <<"b","t","c","-","u","s","d","t",":","u","s","d","t">>,
    <<"u","s","d","t">> }

\* the exchange query parameter; None is the parameter left out
None == "None"
ExchangeParams == { None, "binance:BTC/USDT" }

\* the ticker requests: <<symbol, exchange>>
TickerRequests ==
  { <<s, None>> : s \in RawSymbols } \cup { << <<"u","s","d","t">>, "binance:BTC/USDT" >> }

\* ccxt.exchanges, the identifiers the client library supports
ccxt_exchanges == { "binance", "kraken" }

\* the timeframe query parameter and exchange.timeframes of every client
TimeframeParams == { "1h", "10y" }
exchange_timeframes == { "1h", "1d" }

\* the since query parameter (milliseconds); -1 is the parameter left out
NoSince == -1
SinceParams == { NoSince, 12345 }

\* the historical requests: <<symbol, timeframe, since, exchange>>
HistoricalRequests ==
  { << <<"b","t","c","-","u","s","d","t">>, tf, since, exchange >> :
      tf \in TimeframeParams, since \in SinceParams, exchange \in ExchangeParams }

\* ------------------------------------------------------------------ tickers
\* a ticker snapshot is a dict; EmptyDict is {}.  Timestamps are in seconds
\* here (the upstream's are milliseconds) to stay within TLC's integers.
EmptyDict == [f \in {} |-> 0]
Ticker(last) ==
  [symbol |-> "BTC/USDT", timestamp |-> 1678886400,
   datetime |-> "2023-03-15T12:00:00.000Z", last |-> last, baseVolume |-> 1000]
Tickers == { Ticker(25000), Ticker(25100), EmptyDict }

\* ohlcv data is a list of candles
Candle == <<1678886400, 25000, 25100, 24900, 25050, 100>>
OhlcvLists == { <<>>, <<Candle>> }

\* Python truthiness of a dict or a list: it has an element
Truthy(d) == DOMAIN d # {}

\* --------------------------------------------------------------- exceptions
\* the base class of an exception class: core/exceptions.py for the domain
\* errors, the client library's hierarchy for the ccxt errors
Base(c) ==
  CASE c = "InvalidSymbolError" -> "DataFetchError"
    [] c = "ExchangeError"      -> "DataFetchError"
    [] c = "DataFetchError"     -> "Exception"
    [] c = "ccxt.BadSymbol"     -> "ccxt.BadRequest"
    [] c = "ccxt.BadRequest"    -> "ccxt.ExchangeError"
    [] c = "ccxt.ExchangeError" -> "ccxt.BaseError"
    [] c = "ccxt.RequestTimeout" -> "ccxt.NetworkError"
    [] c = "ccxt.NetworkError"  -> "ccxt.BaseError"
    [] c = "ccxt.BaseError"     -> "Exception"
    [] OTHER                    -> "Exception"

RECURSIVE Mro(_)
\* type(exc).__mro__ up to Exception
Mro(c) == IF c = "Exception" THEN <<c>> ELSE <<c>> \o Mro(Base(c))

IsInstance(c, cls) == \E i \in 1..Len(Mro(c)) : Mro(c)[i] = cls

\* what the upstream client calls can raise
UpstreamErrors ==
  { "ccxt.BadSymbol", "ccxt.RequestTimeout", "ccxt.ExchangeError", "ValueError" }

\* mutant: the clause for ccxt.ExchangeError is tried before the one for its
\* subclass ccxt.BadSymbol
except_clauses_BaseFirst ==
  << <<"ccxt.NetworkError",  "ExchangeError">>,
     <<"ccxt.ExchangeError", "ExchangeError">>,
     <<"ccxt.BadSymbol",     "InvalidSymbolError">>,
     <<"Exception",          "DataFetchError">> >>

\* the except clauses of both service functions, in source order:
\* <<class caught, domain error raised>>
except_clauses ==
  << <<"ccxt.BadSymbol",     "InvalidSymbolError">>,
     <<"ccxt.NetworkError",  "ExchangeError">>,
     <<"ccxt.ExchangeError", "ExchangeError">>,
     <<"Exception",          "DataFetchError">> >>

\* mutant: a single `except Exception` clause
Handle_CatchAll(e) == "DataFetchError"

\* the domain error that leaves the try statement when e is raised inside it:
\* the first clause that matches decides
Handle(e) ==
  LET matching == { i \in 1..Len(except_clauses) :
                      IsInstance(e, except_clauses[i][1]) }
  IN  IF matching = {} THEN e
      ELSE except_clauses[CHOOSE i \in matching : \A j \in matching : i <= j][2]

\* ------------------------------------------------------------------ results
NoResult == [kind |-> "none", value |-> EmptyDict, err |-> ""]
Ok(v)    == [kind |-> "ok",   value |-> v,         err |-> ""]
Err(e)   == [kind |-> "err",  value |-> EmptyDict, err |-> e]

\* ------------------------------------------------------------------ gateway
\* app.exception_handler registrations: <<class, status_code>>
exception_handlers ==
  << <<"InvalidSymbolError", 404>>,
     <<"ExchangeError",      502>>,
     <<"DataFetchError",     500>> >>

HandledClasses == { exception_handlers[i][1] : i \in 1..Len(exception_handlers) }

StatusOf(cls) ==
  exception_handlers[CHOOSE i \in 1..Len(exception_handlers) :
                       exception_handlers[i][1] = cls][2]

\* mutant: the handler of the base class answers for its subclasses
lookup_handler_BaseFirst(err) ==
  IF IsInstance(err, "DataFetchError") THEN 500
  ELSE IF err \in HandledClasses THEN StatusOf(err) ELSE 500

\* the framework's handler lookup: the first class of the exception's MRO
\* that has a registered handler; an exception without one is a 500
lookup_handler(err) ==
  LET mro == Mro(err)
      hits == { i \in 1..Len(mro) : mro[i] \in HandledClasses }
  IN  IF hits = {} THEN 500
      ELSE StatusOf(mro[CHOOSE i \in hits : \A j \in hits : i <= j])

\* the fields get_ticker reads from the service's dict
TickerFields == { "symbol", "timestamp", "datetime", "last", "baseVolume" }

\* the status code of the response to a request whose service call ended in res
Respond(op, res) ==
  IF res.kind = "err" THEN lookup_handler(res.err)
  ELSE IF op = "ticker" /\ ~(TickerFields \subseteq DOMAIN res.value) THEN 500
  ELSE 200

\* -------------------------------------------------------------------- cache
\* ticker_cache is the TTLCache's links, oldest first:
\* [key, value, expires]
cache_key(exchange_id, symbol) == exchange_id \o ":" \o symbol

\* TTLCache.expire(time): drop every link that is not live
expire(cache, time) == SelectSeq(cache, LAMBDA l : time < l.expires)

\* mutant: get returns the link of the key whether it has expired or not
CacheGet_Expired(cache, key, time) ==
  LET links == SelectSeq(cache, LAMBDA l : l.key = key)
  IN  IF links = <<>> THEN <<>> ELSE <<links[1].value>>

\* ticker_cache.get(key): <<value>> of the live link of key, <<>> for None
CacheGet(cache, key, time) ==
  LET live == SelectSeq(cache, LAMBDA l : l.key = key /\ time < l.expires)
  IN  IF live = <<>> THEN <<>> ELSE <<live[1].value>>

\* the cache holds a link of key that is older than the TTL
Outdated(cache, key, time) ==
  \E i \in 1..Len(cache) : cache[i].key = key /\ time > cache[i].expires

\* `if cached_data:` on the result of get
IsHit(cached) == cached # <<>> /\ Truthy(cached[1])

\* mutant: no link is popped to make room
popitems_NoEvict(cache) == cache

RECURSIVE popitems(_)
\* Cache.__setitem__'s loop: pop the oldest link while there is no room
popitems(cache) ==
  IF Len(cache) + 1 > MaxSize THEN popitems(Tail(cache)) ELSE cache

\* mutant: ticker_cache.setdefault(key, value), which keeps a link the key
\* already has
CacheSet_SetDefault(cache, key, value, time) ==
  IF \E i \in 1..Len(cache) : cache[i].key = key THEN cache
  ELSE Append(popitems(expire(cache, time)),
              [key |-> key, value |-> value,
               expires |-> time + CACHE_TTL_SECONDS])

\* ticker_cache[key] = value at time
CacheSet(cache, key, value, time) ==
  LET live == expire(cache, time)
      link == [key |-> key, value |-> value, expires |-> time + CACHE_TTL_SECONDS]
      has  == \E i \in 1..Len(live) : live[i].key = key
  IN  IF has THEN Append(SelectSeq(live, LAMBDA l : l.key # key), link)
      ELSE Append(popitems(live), link)

\* -------------------------------------------------------------------- state
VARIABLES
  tasks,         \* per request slot: the request, its position and its record
  ticker_cache,  \* the TTLCache's links, oldest first
  cache_lock,    \* the asyncio.Lock: [locked, waiters in arrival order]
  now,           \* the cache's timer, in seconds
  ticks,         \* clock advances so far
  calls,         \* requests started so far
  symbol_in,     \* the raw symbol handed to normalize_symbol
  normalized     \* what normalize_symbol returned, call after call

vars == <<tasks, ticker_cache, cache_lock, now, ticks, calls, symbol_in, normalized>>

\* A slot's record.  pc is where the request is suspended:
\*   idle      no request yet            done      response sent
\*   rt_wait   crypto_service.py:40, queued for cache_lock
\*   rt_load   :50 load_markets in flight   rt_fetch  :52 fetch_ticker in flight
\*   rt_close  :69 close in flight
\*   h_fetch   :89 fetch_ohlcv in flight    h_load    :94 load_markets in flight
\*   h_close   :110 close in flight
\* created, closed, loads, fetches, ohlcvs count the clients made and closed
\* and the upstream calls issued by the current request; raised is what the
\* upstream raised; pending is the return value or exception that waits for
\* the finally clause; callNo numbers the requests in the order they start;
\* overlap is the slots whose current request ran while this one did;
\* hit is the cache read that served the request ("lookup" at :35, "recheck"
\* at :42, "none"); stale is whether the confirmed miss found an entry of
\* the key older than the TTL; storedAt is when this request wrote the
\* cache (-1: never); absent is whether load_markets showed that the symbol
\* is not among exchange.markets (crypto_service.py:95).
IdleTask ==
  [pc |-> "idle", op |-> "none", symbol |-> "", exchange_id |-> "",
   timeframe |-> "", since |-> NoSince,
   created |-> 0, closed |-> 0, loads |-> 0, fetches |-> 0, ohlcvs |-> 0,
   raised |-> "none", pending |-> NoResult, result |-> NoResult, status |-> 0,
   callNo |-> 0, overlap |-> {}, hit |-> "none", stale |-> FALSE,
   storedAt |-> -1, absent |-> FALSE]

Busy(r) == r.pc \notin {"idle", "done"}

Init ==
  /\ tasks = [t \in Tasks |-> IdleTask]
  /\ ticker_cache = <<>>
  /\ cache_lock = [locked |-> FALSE, waiters |-> <<>>]
  /\ now = 0
  /\ ticks = 0
  /\ calls = 0
  /\ symbol_in = <<>>
  /\ normalized = <<>>

\* the record of a request that starts in slot t
NewCall(t, op, symbol, exchange_id, timeframe, since) ==
  [IdleTask EXCEPT !.pc = "start", !.op = op, !.symbol = symbol,
                   !.exchange_id = exchange_id, !.timeframe = timeframe,
                   !.since = since, !.callNo = calls + 1,
                   !.overlap = { u \in Tasks \ {t} : Busy(tasks[u]) }]

\* slot t starts a request and becomes r: the other slots' records of the
\* request t ran before are dropped
Started(t, r) ==
  [u \in Tasks |-> IF u = t THEN r
                   ELSE [tasks[u] EXCEPT !.overlap = @ \ {t}]]

\* the service call ends in res and the gateway answers
Finish(r, res) ==
  [r EXCEPT !.pc = "done", !.result = res, !.status = Respond(r.op, res)]

\* A new request takes the lowest slot that never ran a request, or, when
\* every slot has run one, any slot whose request is over.
SlotFree(t) ==
  LET idle == { u \in Tasks : tasks[u].pc = "idle" }
  IN  IF idle = {} THEN tasks[t].pc = "done"
      ELSE t \in idle /\ \A u \in idle : t <= u

\* get_exchange: exchange_id in ccxt.exchanges
Supported(exchange_id) == exchange_id \in ccxt_exchanges

\* mutant: the timeframe is not checked
TimeframeSupported_Any(timeframe) == TRUE

\* timeframe in exchange.timeframes
TimeframeSupported(timeframe) == timeframe \in exchange_timeframes

\* `exchange or settings.DEFAULT_EXCHANGE`
ExchangeOrDefault(exchange) ==
  IF exchange = None \/ exchange = "" THEN DEFAULT_EXCHANGE ELSE exchange

\* mutant: no double-check under the lock
UnderLock_NoRecheck(r) ==
  IF ~Supported(r.exchange_id) THEN Finish(r, Err("ExchangeError"))
  ELSE [r EXCEPT !.pc = "rt_load", !.created = @ + 1, !.loads = @ + 1]

\* ---------------------------------------------------- get_realtime_data
\* crypto_service.py:41-50, run with cache_lock held: the re-check, then
\* get_exchange and the call of load_markets.  The lock is released on the
\* way out when the result is "done".
UnderLock(r) ==
  LET key == cache_key(r.exchange_id, r.symbol)
      cached == CacheGet(ticker_cache, key, now)
      m == [r EXCEPT !.stale = Outdated(ticker_cache, key, now)]
  IN  IF IsHit(cached) THEN Finish([r EXCEPT !.hit = "recheck"], Ok(cached[1]))
      ELSE IF ~Supported(r.exchange_id) THEN Finish(m, Err("ExchangeError"))
      ELSE [m EXCEPT !.pc = "rt_load", !.created = @ + 1, !.loads = @ + 1]

\* mutant: the lock is taken whenever nobody queues for it, held or not
CanAcquire_Unheld(lock) == lock.waiters = <<>>

\* mutant: the miss path does not take the lock
CanAcquire_NoLock(lock) == TRUE

\* asyncio.Lock.acquire returns at once: the lock is free and nobody waits
CanAcquire(lock) == ~lock.locked /\ lock.waiters = <<>>

\* mutant: the lock stays locked when the holder leaves
Release_Leak(lock) == lock

\* mutant: the release takes the first waiter off the queue without waking it
Release_LostWakeup(lock) ==
  [locked |-> FALSE,
   waiters |-> IF lock.waiters = <<>> THEN <<>> ELSE Tail(lock.waiters)]

\* asyncio.Lock.release on leaving `async with cache_lock`
Release(lock) == [lock EXCEPT !.locked = FALSE]

\* GET /ticker/{symbol}: normalize, then get_realtime_data up to its first
\* suspension (main.py:80-92, crypto_service.py:32-50)
GetTicker(t, symbol, exchange) ==
  /\ SlotFree(t)
  /\ calls < MaxCalls
  /\ LET norm_symbol == Join(normalize_symbol(symbol))
         exchange_id == ExchangeOrDefault(exchange)
         r == NewCall(t, "ticker", norm_symbol, exchange_id, "", NoSince)
         cached == CacheGet(ticker_cache, cache_key(exchange_id, norm_symbol), now)
     IN  IF IsHit(cached)
         THEN /\ tasks' = Started(t, Finish([r EXCEPT !.hit = "lookup"], Ok(cached[1])))
              /\ UNCHANGED cache_lock
         ELSE IF CanAcquire(cache_lock)
         THEN /\ tasks' = Started(t, UnderLock(r))
              /\ cache_lock' = [cache_lock EXCEPT !.locked = Busy(UnderLock(r))]
         ELSE /\ tasks' = Started(t, [r EXCEPT !.pc = "rt_wait"])
              /\ cache_lock' = [cache_lock EXCEPT !.waiters = Append(@, t)]
  /\ calls' = calls + 1
  /\ UNCHANGED <<ticker_cache, now, ticks, symbol_in, normalized>>

\* the first waiter is woken by the release and takes the lock
\* (crypto_service.py:40-50)
RtAcquire(t) ==
  /\ tasks[t].pc = "rt_wait"
  /\ ~cache_lock.locked
  /\ cache_lock.waiters # <<>> /\ Head(cache_lock.waiters) = t
  /\ tasks' = [tasks EXCEPT ![t] = UnderLock(tasks[t])]
  /\ cache_lock' = [locked |-> Busy(UnderLock(tasks[t])),
                    waiters |-> Tail(cache_lock.waiters)]
  /\ UNCHANGED <<ticker_cache, now, ticks, calls, symbol_in, normalized>>

\* mutant: the first upstream failure is retried from load_markets
Caught_Retry(r, e, close_pc) ==
  IF r.loads < 2 /\ close_pc = "rt_close"
  THEN [r EXCEPT !.pc = "rt_load", !.loads = @ + 1]
  ELSE [r EXCEPT !.pc = close_pc, !.pending = Err(Handle(e))]

\* mutant: no finally clause, the exception leaves without the close
Caught_NoFinally(r, e, close_pc) == Finish(r, Err(Handle(e)))

\* an exception e raised inside the try statement: the except clauses choose
\* the domain error, which waits for the finally clause
Caught(r, e, close_pc) ==
  [r EXCEPT !.pc = close_pc, !.pending = Err(Handle(e))]

\* load_markets returns or raises (crypto_service.py:50-52, 58-66)
RtLoadMarkets(t) ==
  /\ tasks[t].pc = "rt_load"
  /\ \/ tasks' = [tasks EXCEPT ![t] = [@ EXCEPT !.pc = "rt_fetch", !.fetches = @ + 1]]
     \/ \E e \in UpstreamErrors :
          tasks' = [tasks EXCEPT ![t] = Caught([@ EXCEPT !.raised = e], e, "rt_close")]
  /\ UNCHANGED <<ticker_cache, cache_lock, now, ticks, calls, symbol_in, normalized>>

\* fetch_ticker returns ticker_data, which is stored, or raises
\* (crypto_service.py:52-66)
RtFetchTicker(t) ==
  /\ tasks[t].pc = "rt_fetch"
  /\ \/ \E ticker_data \in Tickers :
          /\ ticker_cache' = CacheSet(ticker_cache,
                                      cache_key(tasks[t].exchange_id, tasks[t].symbol),
                                      ticker_data, now)
          /\ tasks' = [tasks EXCEPT ![t] = [@ EXCEPT !.pc = "rt_close",
                                                     !.pending = Ok(ticker_data),
                                                     !.storedAt = now]]
     \/ \E e \in UpstreamErrors :
          /\ tasks' = [tasks EXCEPT ![t] = Caught([@ EXCEPT !.raised = e], e, "rt_close")]
          /\ UNCHANGED ticker_cache
  /\ UNCHANGED <<cache_lock, now, ticks, calls, symbol_in, normalized>>

\* close returns; the pending result leaves the function and the lock is
\* released (crypto_service.py:67-69, 40)
RtClose(t) ==
  /\ tasks[t].pc = "rt_close"
  /\ tasks' = [tasks EXCEPT ![t] = Finish([@ EXCEPT !.closed = @ + 1], @.pending)]
  /\ cache_lock' = Release(cache_lock)
  /\ UNCHANGED <<ticker_cache, now, ticks, calls, symbol_in, normalized>>

\* --------------------------------------------------- get_historical_data
\* GET /historical/{symbol}: normalize, then get_historical_data up to its
\* first suspension (main.py:131-148, crypto_service.py:80-89)
GetHistorical(t, symbol, timeframe, since, exchange) ==
  /\ SlotFree(t)
  /\ calls < MaxCalls
  /\ LET norm_symbol == Join(normalize_symbol(symbol))
         exchange_id == ExchangeOrDefault(exchange)
         r == NewCall(t, "historical", norm_symbol, exchange_id, timeframe, since)
         c == [r EXCEPT !.created = @ + 1]
     IN  tasks' = Started(t,
           IF ~Supported(exchange_id) THEN Finish(r, Err("ExchangeError"))
           ELSE IF ~TimeframeSupported(timeframe)
                THEN Caught(c, "DataFetchError", "h_close")
                ELSE [c EXCEPT !.pc = "h_fetch", !.ohlcvs = @ + 1])
  /\ calls' = calls + 1
  /\ UNCHANGED <<ticker_cache, cache_lock, now, ticks, symbol_in, normalized>>

\* fetch_ohlcv returns ohlcv_data or raises (crypto_service.py:89-98, 100-107)
HFetchOhlcv(t) ==
  /\ tasks[t].pc = "h_fetch"
  /\ \/ \E ohlcv_data \in OhlcvLists :
          tasks' = [tasks EXCEPT ![t] =
            IF ~Truthy(ohlcv_data) /\ @.since = NoSince
            THEN [@ EXCEPT !.pc = "h_load", !.loads = @ + 1,
                           !.pending = Ok(ohlcv_data)]
            ELSE [@ EXCEPT !.pc = "h_close", !.pending = Ok(ohlcv_data)]]
     \/ \E e \in UpstreamErrors :
          tasks' = [tasks EXCEPT ![t] = Caught([@ EXCEPT !.raised = e], e, "h_close")]
  /\ UNCHANGED <<ticker_cache, cache_lock, now, ticks, calls, symbol_in, normalized>>

\* load_markets returns, with the symbol among exchange.markets or not, or
\* raises (crypto_service.py:94-98, 100-107)
HLoadMarkets(t) ==
  /\ tasks[t].pc = "h_load"
  /\ \/ \E in_markets \in BOOLEAN :
          tasks' = [tasks EXCEPT ![t] =
            IF ~in_markets
            THEN Caught([@ EXCEPT !.absent = TRUE], "InvalidSymbolError", "h_close")
            ELSE [@ EXCEPT !.pc = "h_close"]]
     \/ \E e \in UpstreamErrors :
          tasks' = [tasks EXCEPT ![t] = Caught([@ EXCEPT !.raised = e], e, "h_close")]
  /\ UNCHANGED <<ticker_cache, cache_lock, now, ticks, calls, symbol_in, normalized>>

\* close returns; the pending result leaves the function
\* (crypto_service.py:108-110)
HClose(t) ==
  /\ tasks[t].pc = "h_close"
  /\ tasks' = [tasks EXCEPT ![t] = Finish([@ EXCEPT !.closed = @ + 1], @.pending)]
  /\ UNCHANGED <<ticker_cache, cache_lock, now, ticks, calls, symbol_in, normalized>>

\* -------------------------------------------------------------------- clock
Tick ==
  /\ ticks < MaxTicks
  /\ ticks' = ticks + 1
  /\ now' = now + TickSeconds
  /\ UNCHANGED <<tasks, ticker_cache, cache_lock, calls, symbol_in, normalized>>

\* ------------------------------------------------------- normalize_symbol
\* normalize_symbol is called on the raw symbol, then on what it returned
\* (main.py:44-49)
NormalizeSymbol ==
  /\ Len(normalized) < MaxNormalize
  /\ normalized' = Append(normalized,
       normalize_symbol(IF normalized = <<>> THEN symbol_in
                        ELSE normalized[Len(normalized)]))
  /\ UNCHANGED <<tasks, ticker_cache, cache_lock, now, ticks, calls, symbol_in>>

\* normalize_symbol on every raw symbol, and the two endpoints called with
\* the raw symbol as their path parameter
InitNormalize ==
  /\ tasks = [t \in Tasks |-> IdleTask]
  /\ ticker_cache = <<>>
  /\ cache_lock = [locked |-> FALSE, waiters |-> <<>>]
  /\ now = 0
  /\ ticks = 0
  /\ calls = 0
  /\ symbol_in \in SymbolInputs
  /\ normalized = <<>>

NextNormalize ==
  \/ NormalizeSymbol
  \/ \E t \in Tasks : PathSegment(symbol_in) /\ GetTicker(t, symbol_in, None)
  \/ \E t \in Tasks : PathSegment(symbol_in)
                        /\ GetHistorical(t, symbol_in, "1h", NoSince, None)

\* the ticker endpoint alone
NextTicker ==
  \/ \E t \in Tasks, q \in TickerRequests : GetTicker(t, q[1], q[2])
  \/ \E t \in Tasks : RtAcquire(t)
  \/ \E t \in Tasks : RtLoadMarkets(t)
  \/ \E t \in Tasks : RtFetchTicker(t)
  \/ \E t \in Tasks : RtClose(t)
  \/ Tick

\* the historical endpoint alone
NextHistorical ==
  \/ \E t \in Tasks, q \in HistoricalRequests :
       GetHistorical(t, q[1], q[2], q[3], q[4])
  \/ \E t \in Tasks : HFetchOhlcv(t)
  \/ \E t \in Tasks : HLoadMarkets(t)
  \/ \E t \in Tasks : HClose(t)

\* both endpoints, within one TTL window (the clock does not advance)
NextService ==
  \/ \E t \in Tasks, q \in TickerRequests : GetTicker(t, q[1], q[2])
  \/ \E t \in Tasks : RtAcquire(t)
  \/ \E t \in Tasks : RtLoadMarkets(t)
  \/ \E t \in Tasks : RtFetchTicker(t)
  \/ \E t \in Tasks : RtClose(t)
  \/ \E t \in Tasks, q \in HistoricalRequests :
       GetHistorical(t, q[1], q[2], q[3], q[4])
  \/ \E t \in Tasks : HFetchOhlcv(t)
  \/ \E t \in Tasks : HLoadMarkets(t)
  \/ \E t \in Tasks : HClose(t)

Spec == Init /\ [][NextTicker]_vars
SpecHistorical == Init /\ [][NextHistorical]_vars
SpecService == Init /\ [][NextService]_vars
SpecNormalize == InitNormalize /\ [][NextNormalize]_vars

\* Every upstream call that was started returns or raises, and the event
\* loop runs the waiter that a release of the lock has woken.  Nothing
\* obliges a new request to arrive.
Fairness ==
  \A t \in Tasks :
    /\ WF_vars(RtAcquire(t))
    /\ WF_vars(RtLoadMarkets(t))
    /\ WF_vars(RtFetchTicker(t))
    /\ WF_vars(RtClose(t))

\* the ticker endpoint within one TTL window (the clock does not advance)
NextLive ==
  \/ \E t \in Tasks, q \in TickerRequests : GetTicker(t, q[1], q[2])
  \/ \E t \in Tasks : RtAcquire(t)
  \/ \E t \in Tasks : RtLoadMarkets(t)
  \/ \E t \in Tasks : RtFetchTicker(t)
  \/ \E t \in Tasks : RtClose(t)

SpecLive == Init /\ [][NextLive]_vars /\ Fairness

\* ------------------------------------------------------------------ claims
Key(r) == cache_key(r.exchange_id, r.symbol)
\* two requests for the same (exchange, symbol) pair
SamePair(r1, r2) == r1.symbol = r2.symbol /\ r1.exchange_id = r2.exchange_id
IsTicker(r) == r.op = "ticker"
IsHistorical(r) == r.op = "historical"
Done(r) == r.pc = "done"
\* the current requests of t and u ran at the same time
Overlapped(t, u) == u \in tasks[t].overlap \/ t \in tasks[u].overlap
\* slot u starts a request in this step
Starts(u) == calls' = calls + 1 /\ tasks'[u].callNo = calls'
\* the cache still holds the link that request r stored
HoldsLinkOf(cache, r) ==
  \E i \in 1..Len(cache) :
    /\ cache[i].key = Key(r)
    /\ cache[i].value = r.pending.value
    /\ cache[i].expires = r.storedAt + CACHE_TTL_SECONDS

\* C1: at most one upstream call (load_markets or fetch_ticker) of
\* get_realtime_data is in flight for a cache key at any time.
C1_SingleFlightPerKey ==
  \A t, u \in Tasks :
    (t # u /\ tasks[t].pc \in {"rt_load", "rt_fetch"}
           /\ tasks[u].pc \in {"rt_load", "rt_fetch"})
      => Key(tasks[t]) # Key(tasks[u])

\* a fetch_ticker call is in flight while another request for the same key
\* is queued for the lock
C1_Witness ==
  \E t, u \in Tasks :
    /\ tasks[t].pc = "rt_fetch" /\ tasks[u].pc = "rt_wait"
    /\ Key(tasks[t]) = Key(tasks[u])

C3_SecondCallServedFromCache ==
  [][ \A t, u \in Tasks :
        (/\ t # u
         /\ Starts(u) /\ IsTicker(tasks'[u])
         /\ IsTicker(tasks[t]) /\ Done(tasks[t])
         /\ tasks[t].storedAt >= 0
         /\ SamePair(tasks'[u], tasks[t])
         /\ now < tasks[t].storedAt + CACHE_TTL_SECONDS)
          => /\ Done(tasks'[u])
             /\ tasks'[u].hit = "lookup"
             /\ tasks'[u].result = tasks[t].result
             /\ tasks[t].fetches + tasks'[u].fetches = 1
             /\ tasks[t].created + tasks'[u].created = 1
             /\ tasks[t].closed + tasks'[u].closed = 1 ]_vars

\* C4 as stated: a request (for a supported exchange) whose confirmed miss
\* finds an entry of its key older than the TTL makes exactly one
\* fetch_ticker call and stores its result.
C4_Original ==
  \A u \in Tasks :
    (/\ IsTicker(tasks[u]) /\ Supported(tasks[u].exchange_id)
     /\ tasks[u].stale /\ Done(tasks[u]))
      => /\ tasks[u].fetches = 1
         /\ tasks[u].storedAt >= 0
         /\ tasks[u].result.kind = "ok"

\* the key has exactly one link, and it is the one request r just stored
Refreshed(cache, r, time) ==
  /\ Cardinality({ i \in 1..Len(cache) : cache[i].key = Key(r) }) = 1
  /\ HoldsLinkOf(cache, r)
  /\ r.storedAt = time
  /\ CacheGet(cache, Key(r), time) = <<r.pending.value>>

\* C4, amended: a request (for a supported exchange) whose confirmed miss
\* finds an entry of its key older than the TTL creates one client, is not
\* served that entry and makes at most one
\* fetch_ticker call; when its upstream calls succeed it has made exactly one
\* and the key's entry is the new result with a new TTL; when it fails it
\* stores nothing.
C4_RefreshAfterTtl ==
  /\ [] \A u \in Tasks :
          (IsTicker(tasks[u]) /\ Supported(tasks[u].exchange_id) /\ tasks[u].stale)
            => /\ tasks[u].hit = "none"
               /\ tasks[u].created = 1
               /\ tasks[u].fetches <= 1
               /\ (Done(tasks[u]) /\ tasks[u].result.kind = "ok")
                    => (tasks[u].fetches = 1 /\ tasks[u].storedAt >= 0)
               /\ (Done(tasks[u]) /\ tasks[u].result.kind = "err")
                    => tasks[u].storedAt = -1
  /\ [][ \A u \in Tasks :
           (/\ IsTicker(tasks[u]) /\ tasks[u].stale
            /\ tasks[u].pc = "rt_fetch" /\ tasks'[u].pending.kind = "ok")
             => Refreshed(ticker_cache', tasks'[u], now) ]_vars

\* a request found its key's entry older than the TTL, fetched, and the
\* entry now holds its result
C4_Witness ==
  \E u \in Tasks :
    /\ IsTicker(tasks[u]) /\ tasks[u].stale
    /\ tasks[u].pc = "rt_close" /\ tasks[u].pending.kind = "ok"
    /\ tasks[u].fetches = 1
    /\ Refreshed(ticker_cache, tasks[u], tasks[u].storedAt)

\* C5: when load_markets or fetch_ticker raises symbol-not-found, the
\* request fails with InvalidSymbolError, it has written nothing to the
\* cache, and at the moment it fails a lookup of its key is a miss, so the
\* next request for the key goes upstream.
C5_BadSymbolNotCached ==
  \A t \in Tasks :
    (IsTicker(tasks[t]) /\ tasks[t].raised = "ccxt.BadSymbol")
      => /\ tasks[t].storedAt = -1
         /\ tasks[t].pc \in {"rt_close", "done"}
         /\ tasks[t].pc = "rt_close"
              => /\ tasks[t].pending = Err("InvalidSymbolError")
                 /\ ~IsHit(CacheGet(ticker_cache, Key(tasks[t]), now))
         /\ Done(tasks[t]) => tasks[t].result = Err("InvalidSymbolError")

\* a request failed on symbol-not-found, and a later request for the same
\* pair went upstream again
C5_Witness ==
  \E t, u \in Tasks :
    /\ t # u /\ SamePair(tasks[t], tasks[u])
    /\ IsTicker(tasks[t]) /\ Done(tasks[t])
    /\ tasks[t].raised = "ccxt.BadSymbol"
    /\ tasks[t].result = Err("InvalidSymbolError")
    /\ tasks[t].callNo < tasks[u].callNo /\ ~Overlapped(t, u)
    /\ tasks[u].pc = "rt_fetch"

\* C6: a network error or an exchange error raised by the upstream surfaces
\* as ExchangeError and any other exception as DataFetchError; a request that
\* fails has written nothing to the cache, and the cache changes only in the
\* step in which a fetch_ticker call returns.
C6_FailuresLeaveCache ==
  /\ [] \A t \in Tasks :
          (IsTicker(tasks[t]) /\ Done(tasks[t]))
            => /\ tasks[t].raised \in {"ccxt.RequestTimeout", "ccxt.ExchangeError"}
                    => tasks[t].result = Err("ExchangeError")
               /\ tasks[t].raised = "ValueError"
                    => tasks[t].result = Err("DataFetchError")
               /\ tasks[t].result.kind = "err" => tasks[t].storedAt = -1
  /\ [][ ticker_cache' # ticker_cache
           => \E t \in Tasks : /\ tasks[t].pc = "rt_fetch"
                               /\ tasks'[t].pending.kind = "ok" ]_vars

\* one request failed on a network error and another on an unexpected
\* exception, while the cache holds an entry
C6_Witness ==
  \E t, u \in Tasks :
    /\ Done(tasks[t]) /\ tasks[t].raised = "ccxt.RequestTimeout"
    /\ tasks[t].result = Err("ExchangeError")
    /\ Done(tasks[u]) /\ tasks[u].raised = "ValueError"
    /\ tasks[u].result = Err("DataFetchError")
    /\ ticker_cache # <<>>

\* C7: a request creates at most one client; while the client is in use it
\* is open; when the request is over the client it created has been closed
\* exactly once, whatever the outcome; a request served from the cache or
\* refused for its exchange creates none.
C7_ClientClosedOnce ==
  \A t \in Tasks :
    /\ tasks[t].created <= 1
    /\ tasks[t].pc \in {"rt_load", "rt_fetch", "rt_close", "h_fetch", "h_load", "h_close"}
         => (tasks[t].created = 1 /\ tasks[t].closed = 0)
    /\ Done(tasks[t]) => tasks[t].closed = tasks[t].created
    /\ tasks[t].hit # "none" => tasks[t].created = 0
    /\ (Done(tasks[t]) /\ (tasks[t].raised # "none" \/ tasks[t].storedAt >= 0
                           \/ tasks[t].loads + tasks[t].ohlcvs > 0))
         => tasks[t].closed = 1
    /\ (Done(tasks[t]) /\ IsHistorical(tasks[t]) /\ Supported(tasks[t].exchange_id))
         => tasks[t].closed = 1

\* a ticker request that failed upstream and a historical request refused
\* for its timeframe are both over, each with its client closed once
C7_Witness ==
  \E t, u \in Tasks :
    /\ IsTicker(tasks[t]) /\ Done(tasks[t])
    /\ tasks[t].raised # "none" /\ tasks[t].closed = 1
    /\ IsHistorical(tasks[u]) /\ Done(tasks[u])
    /\ ~TimeframeSupported(tasks[u].timeframe)
    /\ tasks[u].created = 1 /\ tasks[u].closed = 1

\* C8: a ticker request for an exchange that is not supported fails with
\* ExchangeError and creates no client.
C8_UnsupportedExchangeFails ==
  \A t \in Tasks :
    (IsTicker(tasks[t]) /\ Done(tasks[t]) /\ ~Supported(tasks[t].exchange_id))
      => /\ tasks[t].result = Err("ExchangeError")
         /\ tasks[t].created = 0

\* C9: a historical request whose timeframe the client does not support
\* fails with DataFetchError without a fetch_ohlcv or load_markets call, and
\* its client is closed exactly once.
C9_BadTimeframe ==
  \A t \in Tasks :
    (/\ IsHistorical(tasks[t]) /\ Supported(tasks[t].exchange_id)
     /\ tasks[t].timeframe \notin exchange_timeframes)
      => /\ tasks[t].ohlcvs = 0 /\ tasks[t].loads = 0
         /\ tasks[t].created = 1
         /\ tasks[t].pc \in {"h_close", "done"}
         /\ tasks[t].pc = "h_close"
              => (tasks[t].pending = Err("DataFetchError") /\ tasks[t].closed = 0)
         /\ Done(tasks[t])
              => (tasks[t].result = Err("DataFetchError") /\ tasks[t].closed = 1)

\* a historical request for timeframe 10y is over
C9_Witness ==
  \E t \in Tasks :
    /\ IsHistorical(tasks[t]) /\ Done(tasks[t])
    /\ tasks[t].timeframe = "10y"
    /\ tasks[t].result = Err("DataFetchError")
    /\ tasks[t].closed = 1 /\ tasks[t].ohlcvs = 0

\* C10: the response to a request whose service call raised
\* InvalidSymbolError is a 404, ExchangeError a 502, and a DataFetchError
\* that is neither a 500.
C10_StatusPerError ==
  \A t \in Tasks :
    (Done(tasks[t]) /\ tasks[t].result.kind = "err")
      => /\ tasks[t].result.err = "InvalidSymbolError" => tasks[t].status = 404
         /\ tasks[t].result.err = "ExchangeError" => tasks[t].status = 502
         /\ tasks[t].result.err = "DataFetchError" => tasks[t].status = 500
         /\ tasks[t].result.err \in
              {"InvalidSymbolError", "ExchangeError", "DataFetchError"}

\* a request answered 404 and a request answered 502
C10_Witness ==
  \E t, u \in Tasks :
    /\ Done(tasks[t]) /\ tasks[t].result = Err("InvalidSymbolError")
    /\ tasks[t].status = 404
    /\ Done(tasks[u]) /\ tasks[u].result = Err("ExchangeError")
    /\ tasks[u].status = 502

\* the raw symbol in upper case with every '-' replaced by '/', character
\* by character
Normalized(symbol) ==
  [i \in 1..Len(symbol) |->
     CASE symbol[i] = "-" -> "/"
       [] symbol[i] = "b" -> "B"
       [] OTHER -> symbol[i]]

\* C11: normalize_symbol returns its input in upper case with every '-'
\* replaced by '/' and nothing else changed, for every input; applied to its
\* own result it returns it unchanged; the symbol the gateway hands to the
\* service is this normalized symbol.
C11_NormalizeSymbol ==
  /\ Len(normalized) >= 1 =>
       /\ normalized[1] = Normalized(symbol_in)
       /\ Len(normalized[1]) = Len(symbol_in)
  /\ \A k \in 2..Len(normalized) : normalized[k] = normalized[1]
  /\ \A t \in Tasks :
       tasks[t].op # "none" => tasks[t].symbol = Join(Normalized(symbol_in))

\* b-T was normalized twice and both endpoints were called with it
C11_Witness ==
  /\ symbol_in = <<"b", "-", "T">>
  /\ Len(normalized) = 2
  /\ normalized[2] = <<"B", "/", "T">>
  /\ \E t, u \in Tasks :
       /\ IsTicker(tasks[t]) /\ tasks[t].symbol = "B/T"
       /\ IsHistorical(tasks[u]) /\ tasks[u].symbol = "B/T"

\* the keys of the cache's links
KeysOf(cache) == { cache[i].key : i \in 1..Len(cache) }

\* C12: the cache never holds more than its capacity of entries, one per
\* key; a fetch_ticker result stored under a new key while the cache is full
\* of live entries takes the place of the oldest entry, and the storing
\* request still returns its result.
C12_CacheBounded ==
  /\ [] /\ Len(ticker_cache) <= MaxSize
        /\ Cardinality(KeysOf(ticker_cache)) = Len(ticker_cache)
        /\ \A t \in Tasks :
             (IsTicker(tasks[t]) /\ Done(tasks[t]) /\ tasks[t].storedAt >= 0)
               => tasks[t].result.kind = "ok"
  /\ [][ \A t \in Tasks :
           (/\ tasks[t].pc = "rt_fetch" /\ tasks'[t].pending.kind = "ok"
            /\ Len(expire(ticker_cache, now)) = MaxSize
            /\ Key(tasks[t]) \notin KeysOf(expire(ticker_cache, now)))
             => /\ Len(ticker_cache') = MaxSize
                /\ KeysOf(ticker_cache') =
                      (KeysOf(expire(ticker_cache, now))
                         \ {expire(ticker_cache, now)[1].key}) \cup {Key(tasks[t])}
                /\ CacheGet(ticker_cache', Key(tasks[t]), now)
                      = <<tasks'[t].pending.value>>
                /\ tasks'[t].pc = "rt_close" ]_vars

\* the cache is full, a request has just stored its result, and the entry of
\* an earlier request was evicted before its TTL was over
C12_Witness ==
  \E t, u \in Tasks :
    /\ t # u
    /\ tasks[t].pc = "rt_close" /\ tasks[t].pending.kind = "ok"
    /\ Len(ticker_cache) = MaxSize
    /\ Key(tasks[t]) \in KeysOf(ticker_cache)
    /\ Done(tasks[u]) /\ tasks[u].storedAt >= 0
    /\ now < tasks[u].storedAt + CACHE_TTL_SECONDS
    /\ Key(tasks[u]) \notin KeysOf(ticker_cache)

\* the request of slot t is inside `async with cache_lock`, past the re-check
InMissPath(r) == r.pc \in {"rt_load", "rt_fetch", "rt_close"}

\* C13: cache_lock is locked exactly while a request is inside the miss
\* path, and by one request at a time; whenever a get_realtime_data call that
\* took the lock ends (with a fetched result, a re-check hit, an upstream
\* error or the unsupported-exchange error) the lock is free again.
C13_LockReleased ==
  /\ [] /\ cache_lock.locked <=> \E t \in Tasks : InMissPath(tasks[t])
        /\ \A t, u \in Tasks :
             (InMissPath(tasks[t]) /\ InMissPath(tasks[u])) => t = u
        /\ \A t \in Tasks :
             (\E i \in 1..Len(cache_lock.waiters) : cache_lock.waiters[i] = t)
               <=> tasks[t].pc = "rt_wait"
  /\ [][ \A t \in Tasks :
           (/\ IsTicker(tasks'[t]) /\ Done(tasks'[t])
            /\ (Starts(t) \/ ~Done(tasks[t]))
            /\ tasks'[t].hit # "lookup")
             => ~cache_lock'.locked ]_vars

\* a request refused for its exchange and a request served by its re-check
\* are both over, and the lock is free
C13_Witness ==
  \E t, u \in Tasks :
    /\ IsTicker(tasks[t]) /\ Done(tasks[t])
    /\ tasks[t].result = Err("ExchangeError") /\ tasks[t].created = 0
    /\ IsTicker(tasks[u]) /\ Done(tasks[u]) /\ tasks[u].hit = "recheck"
    /\ ~cache_lock.locked /\ cache_lock.waiters = <<>>

\* C14: a historical request whose symbol does not exist on the exchange
\* (fetch_ohlcv raised symbol-not-found, or it returned no candles with
\* since unset and the symbol is not among the loaded markets) fails with
\* InvalidSymbolError.
C14_HistoricalBadSymbol ==
  \A t \in Tasks :
    (/\ IsHistorical(tasks[t]) /\ Done(tasks[t])
     /\ (tasks[t].raised = "ccxt.BadSymbol" \/ tasks[t].absent))
      => tasks[t].result = Err("InvalidSymbolError")

\* the request holds a client it has created and not yet closed
HasClient(r) == r.created > r.closed

\* C15: at most one get_realtime_data call, whatever its key, is between
\* the creation and the close of its client; while one is, every other
\* get_realtime_data call in progress is queued for the lock, with no client
\* and no upstream call of its own.
C15_MissesSerialized ==
  \A t, u \in Tasks :
    (t # u /\ IsTicker(tasks[t]) /\ IsTicker(tasks[u]) /\ HasClient(tasks[t]))
      => /\ ~HasClient(tasks[u])
         /\ InMissPath(tasks[t])
         /\ Busy(tasks[u])
              => /\ tasks[u].pc = "rt_wait"
                 /\ tasks[u].created = 0
                 /\ tasks[u].loads = 0 /\ tasks[u].fetches = 0

\* a miss for one key awaits fetch_ticker while a miss for another key, on
\* a supported exchange, is queued for the lock
C15_Witness ==
  \E t, u \in Tasks :
    /\ IsTicker(tasks[t]) /\ tasks[t].pc = "rt_fetch"
    /\ IsTicker(tasks[u]) /\ tasks[u].pc = "rt_wait"
    /\ Key(tasks[t]) # Key(tasks[u])
    /\ Supported(tasks[u].exchange_id)

\* C16: a get_realtime_data call that starts while its key has a live
\* cache entry returns that entry from its first lookup, without touching
\* cache_lock, whoever holds the lock at that moment.
C16_LiveEntryServedWithoutLock ==
  [][ \A u \in Tasks :
        (/\ Starts(u) /\ IsTicker(tasks'[u])
         /\ CacheGet(ticker_cache, Key(tasks'[u]), now) # <<>>)
          => /\ Done(tasks'[u])
             /\ tasks'[u].hit = "lookup"
             /\ tasks'[u].result = Ok(CacheGet(ticker_cache, Key(tasks'[u]), now)[1])
             /\ cache_lock' = cache_lock ]_vars

\* C17: a key that has a live entry is never written: whenever a
\* get_realtime_data call stores its fetch_ticker result, the cache holds no
\* live entry of its key at that moment (none was stored, or it has expired
\* or been evicted).
C17_LiveEntryNotRewritten ==
  [][ \A t \in Tasks :
        (tasks[t].pc = "rt_fetch" /\ tasks'[t].pending.kind = "ok")
          => CacheGet(ticker_cache, Key(tasks[t]), now) = <<>> ]_vars

\* C18: a get_realtime_data call makes at most one load_markets call and at
\* most one fetch_ticker call, the latter only after load_markets returned;
\* once an upstream call has raised, the call makes no further upstream
\* call: it closes its client and ends with the error chosen for that first
\* exception.
C18_NoRetries ==
  /\ [] \A t \in Tasks :
          IsTicker(tasks[t])
            => /\ tasks[t].loads <= 1 /\ tasks[t].fetches <= tasks[t].loads
               /\ tasks[t].raised # "none"
                    => /\ tasks[t].pc \in {"rt_close", "done"}
                       /\ tasks[t].pc = "rt_close"
                            => tasks[t].pending = Err(Handle(tasks[t].raised))
                       /\ Done(tasks[t])
                            => tasks[t].result = Err(Handle(tasks[t].raised))
  /\ [][ \A t \in Tasks :
           /\ (tasks[t].pc = "rt_load" /\ tasks'[t].raised # "none")
                => (tasks'[t].fetches = 0 /\ tasks'[t].pc = "rt_close")
           /\ (tasks[t].raised # "none" /\ tasks'[t].callNo = tasks[t].callNo)
                => /\ tasks'[t].loads = tasks[t].loads
                   /\ tasks'[t].fetches = tasks[t].fetches
                   /\ tasks'[t].raised = tasks[t].raised
                   /\ tasks'[t].pc # tasks[t].pc => Done(tasks'[t]) ]_vars

\* one call failed at load_markets and never called fetch_ticker, another
\* failed at fetch_ticker; both are over with their errors
C18_Witness ==
  \E t, u \in Tasks :
    /\ IsTicker(tasks[t]) /\ Done(tasks[t]) /\ tasks[t].raised # "none"
    /\ tasks[t].loads = 1 /\ tasks[t].fetches = 0
    /\ tasks[t].result.kind = "err"
    /\ IsTicker(tasks[u]) /\ Done(tasks[u]) /\ tasks[u].raised # "none"
    /\ tasks[u].loads = 1 /\ tasks[u].fetches = 1
    /\ tasks[u].result.kind = "err"

\* C19: under the fairness of SpecLive, every request that queues for
\* cache_lock gets it, and every get_realtime_data call in progress ends with
\* a result or an error; in no reachable state are calls in progress none of
\* which can take a step.
C19_EventuallyReturns ==
  /\ \A t \in Tasks : (tasks[t].pc = "rt_wait") ~> (tasks[t].pc # "rt_wait")
  /\ \A t \in Tasks : Busy(tasks[t]) ~> Done(tasks[t])
  /\ [] ((\E t \in Tasks : Busy(tasks[t]))
           => \E t \in Tasks :
                \/ InMissPath(tasks[t])
                \/ /\ tasks[t].pc = "rt_wait" /\ ~cache_lock.locked
                   /\ cache_lock.waiters # <<>>
                   /\ Head(cache_lock.waiters) = t)

\* a call that had to queue for the lock has returned from its re-check,
\* and a call that failed upstream has returned its error
C19_Witness ==
  \E t, u \in Tasks :
    /\ IsTicker(tasks[t]) /\ Done(tasks[t]) /\ tasks[t].hit = "recheck"
    /\ IsTicker(tasks[u]) /\ Done(tasks[u]) /\ tasks[u].result.kind = "err"
    /\ tasks[u].raised # "none"

\* when the link was inserted: its expiry less the TTL
InsertedAt(link) == link.expires - CACHE_TTL_SECONDS

\* C20: whenever a get_realtime_data call returns a value, either the call
\* was not served from the cache and the value is what its own, single
\* fetch_ticker call returned, or the cache holds the value under the call's
\* key in an entry inserted at most CACHE_TTL_SECONDS ago that has not
\* expired.
C20_StalenessBound ==
  [][ \A t \in Tasks :
        /\ (tasks[t].pc = "rt_fetch" /\ tasks'[t].pending.kind = "ok")
             => (tasks'[t].storedAt = now /\ tasks'[t].fetches = 1)
        /\ (/\ IsTicker(tasks'[t]) /\ Done(tasks'[t])
            /\ (Starts(t) \/ ~Done(tasks[t]))
            /\ tasks'[t].result.kind = "ok")
             => \/ /\ tasks'[t].hit = "none"
                   /\ tasks[t].pc = "rt_close"
                   /\ tasks'[t].fetches = 1 /\ tasks'[t].storedAt >= 0
                   /\ tasks'[t].result = tasks[t].pending
                \/ /\ tasks'[t].hit \in {"lookup", "recheck"}
                   /\ tasks'[t].fetches = 0
                   /\ \E i \in 1..Len(ticker_cache) :
                        /\ ticker_cache[i].key = Key(tasks'[t])
                        /\ ticker_cache[i].value = tasks'[t].result.value
                        /\ InsertedAt(ticker_cache[i]) <= now
                        /\ now - InsertedAt(ticker_cache[i]) <= CACHE_TTL_SECONDS
                        /\ now < ticker_cache[i].expires ]_vars

\* a call was served by its first lookup an entry that was inserted some
\* time ago and has not expired, while the cache also holds an expired entry
C20_Witness ==
  \E t \in Tasks :
    /\ IsTicker(tasks[t]) /\ Done(tasks[t]) /\ tasks[t].hit = "lookup"
    /\ \E i \in 1..Len(ticker_cache) :
         /\ ticker_cache[i].key = Key(tasks[t])
         /\ ticker_cache[i].value = tasks[t].result.value
         /\ InsertedAt(ticker_cache[i]) < now
         /\ now < ticker_cache[i].expires
    /\ \E j \in 1..Len(ticker_cache) : ticker_cache[j].expires <= now

\* C21: a get_realtime_data call is served from the cache only an entry
\* that a call for the same (exchange, symbol) pair stored: whenever a call
\* returns from its lookup or its re-check the entry that an earlier call
\* stored, the two calls have the same exchange and the same symbol.
C21_KeyInjective ==
  [][ \A t, u \in Tasks :
        (/\ t # u
         /\ IsTicker(tasks[t]) /\ Done(tasks[t]) /\ tasks[t].storedAt >= 0
         /\ HoldsLinkOf(ticker_cache, tasks[t])
         /\ (Starts(u) \/ tasks[u].pc = "rt_wait")
         /\ IsTicker(tasks'[u]) /\ Done(tasks'[u])
         /\ tasks'[u].hit \in {"lookup", "recheck"}
         /\ Key(tasks'[u]) = Key(tasks[t]))
          => SamePair(tasks'[u], tasks[t]) ]_vars

\* C22: whenever a get_realtime_data call gets past its lookup, or its
\* re-check under the lock, while the cache holds a live entry of its key,
\* whatever the entry's value, the call returns that value and makes no
\* upstream call.
C22_HitByPresence ==
  [][ \A u \in Tasks :
        (/\ IsTicker(tasks'[u])
         /\ (Starts(u) \/ tasks[u].pc = "rt_wait")
         /\ tasks'[u].pc # "rt_wait"
         /\ CacheGet(ticker_cache, Key(tasks'[u]), now) # <<>>)
          => /\ Done(tasks'[u])
             /\ tasks'[u].hit \in {"lookup", "recheck"}
             /\ tasks'[u].result = Ok(CacheGet(ticker_cache, Key(tasks'[u]), now)[1])
             /\ tasks'[u].created = 0 /\ tasks'[u].loads = 0 ]_vars

====
